---- MODULE Spec2Model ----
(***************************************************************************)
(* GitHubProxyTester: fetch proxy lists, probe every endpoint through the  *)
(* verification URLs in batches, record working/dead results, save the     *)
(* sorted result file and the statistics.                                  *)
(*                                                                         *)
(* The repository holds three versions of the tester class:                *)
(*   "fixed"    src/proxy-tester.js lines 1-548                            *)
(*   "realtime" src/proxy-tester.js lines 550-1143                         *)
(*   "basic"    src/unnamed/part_000                                       *)
(* The variable `version` says which one runs; operators branch on it      *)
(* where the three differ.                                                 *)
(*                                                                         *)
(* Not modelled: timestamps (testedAt, startTime, endTime, duration),      *)
(* responseSize, console output, and the content of the three log files    *)
(* (only whether a write to them fails).                                   *)
(***************************************************************************)
EXTENDS Integers, Sequences, FiniteSets, TLC

\* ------------------------------------------------------------------ bounds
\* Largest response time (clock ticks a probe can see while it is in flight).
MaxElapsed == 1
\* batchSize is drawn from 1..MaxBatchSize (the source fixes 30 or 50, with
\* 10 or 15 for concurrency; the model draws both small enough to get several
\* batches and several concurrency groups out of three endpoints).
MaxBatchSize == 2

Versions == {"fixed", "realtime", "basic"}

Undefined == "undefined"

Min(a, b) == IF a < b THEN a ELSE b

Range(s) == {s[k] : k \in DOMAIN s}

\* ------------------------------------------------------- verification URLs
\* A URL is kept as its parts, so that the two host-label conversions of the
\* code (new URL(u).hostname and u.split('/')[2]) can differ as they do.
Url(scheme, host, path, query) ==
  [scheme |-> scheme, host |-> host, path |-> path, query |-> query]

testUrls(v) ==
  CASE v = "fixed" ->
         << Url("http", "httpbin.org", "/ip", ""),
            Url("https", "api.ipify.org", "", "?format=json"),
            Url("https", "icanhazip.com", "", "") >>
    [] v = "realtime" ->
         << Url("https", "otakudesu.best", "/anime/watanare-sub-indo", "") >>
    [] v = "basic" ->
         << Url("https", "httpbin.org", "/ip", ""),
            Url("https", "icanhazip.com", "", ""),
            Url("https", "ipinfo.io", "/ip", ""),
            Url("https", "otakudesu.best", "/anime/watanare-sub-indo", "") >>

\* new URL(testUrl).hostname
Hostname(u) == u.host

\* testUrl.split('/')[2]: everything between "//" and the next "/"; a query
\* that follows the host without a path stays attached to it.
SplitSlash2(u) == IF u.path = "" THEN u.host \o u.query ELSE u.host

\* Mutant of maxRetries: as many retries as the first version's list is
\* long, whatever the length of the version's own list.
maxRetries_Uncapped(v) == Len(testUrls("fixed"))

\* const maxRetries = ...
maxRetries(v) ==
  IF v = "fixed" THEN Len(testUrls(v)) ELSE Min(2, Len(testUrls(v)))

\* A message is its text and its length; NoMessage is the `undefined` read
\* from a value that has no message property.
Message(text, len) == [text |-> text, len |-> len]

NoMessage == Message(Undefined, 0)

\* message.substring(0, n)
Substring(msg, n) ==
  IF msg.len <= n THEN msg
  ELSE Message("prefix of " \o msg.text, n)

\* ------------------------------------------------------------ proxy sources
\* The first three entries of proxySources; a source is its host label
\* (url.split('/')[2]) and whether its url contains "geonode".
Source(name, geonode) == [name |-> name, geonode |-> geonode]

proxySources(v) ==
  IF v = "fixed"
  THEN << Source("api.proxyscrape.com", FALSE),
          Source("raw.githubusercontent.com", FALSE),
          Source("raw.githubusercontent.com", FALSE) >>
  ELSE << Source("api.proxyscrape.com", FALSE),
          Source("proxylist.geonode.com", TRUE),
          Source("raw.githubusercontent.com", FALSE) >>

SourceIds == 1..3

\* A line of a text response: optional scheme prefix, the core text, an
\* optional trailing comment.
Line(scheme, core, trail) == [scheme |-> scheme, core |-> core, trail |-> trail]

E1 == "1.1.1.1:80"
E2 == "2.2.2.2:8080"
E3 == "3.3.3.3:3128"
E4 == "1.2.3.4:8080"
E5 == "1.2.3.4:0"
E6 == "1.2.3.4:70000"

\* /^\d{1,3}\.\d{1,3}\.\d{1,3}\.\d{1,3}:\d{1,5}$/ on the texts the feeds use:
\* the four endpoints and the texts with port 0 and port 70000 (one to
\* five digits after the colon) match; "not-an-ip", "1.2.3.4" (no port),
\* "1.2.3.4:999999" (six digits), "proxy.example:80", "undefined:undefined"
\* and every text with a blank or a '#' in it do not.
IpPortShape(text) == text \in {E1, E2, E3, E4, E5, E6}

\* An entry of the data array of the JSON list format.
Item(ip, port) == [ip |-> ip, port |-> port]

\* `${p.ip}:${p.port}`
ItemText(p) == p.ip \o ":" \o p.port

\* The map callback of the text branch: trim, strip the scheme; "fixed" also
\* cuts at the first blank or '#'.
CleanLine(v, l) == IF v = "fixed" THEN l.core ELSE l.core \o l.trail

SelectShape(s) == SelectSeq(s, IpPortShape)

\* proxies = ... for one response
ParseResponse(v, src, res) ==
  IF v # "fixed" /\ src.geonode /\ res.kind = "json"
  THEN [k \in DOMAIN res.data |-> ItemText(res.data[k])]
  ELSE IF res.kind = "text"
       THEN SelectShape([k \in DOMAIN res.data |-> CleanLine(v, res.data[k])])
       ELSE << >>

\* Mutant of AddUnique: every parsed proxy is added, seen before or not.
AddUnique_NoCheck(all, proxies) == all \o proxies

RECURSIVE AddUnique(_, _)
\* proxies.forEach(proxy => { if (!has) add })
AddUnique(all, proxies) ==
  IF proxies = << >> THEN all
  ELSE AddUnique(IF Head(proxies) \in Range(all) THEN all
                 ELSE Append(all, Head(proxies)),
                 Tail(proxies))

\* What axios.get(url) of a source does: it resolves with a body that is a
\* string or a parsed JSON document, or it rejects with an error.
TextRes(lines) == [kind |-> "text", data |-> lines, message |-> NoMessage]
JsonRes(items) == [kind |-> "json", data |-> items, message |-> NoMessage]
ErrRes(message) == [kind |-> "error", data |-> << >>, message |-> message]

\* "timeout of 30000ms exceeded"
FetchTimeout == Message("timeout of 30000ms exceeded", 27)

\* An error whose message is longer than 100 characters.
FetchLongError == Message("getaddrinfo ENOTFOUND ...", 120)

\* What the three sources answer in one run (the transport of fetchProxies):
\* two endpoints from a text list plus one from a JSON list (which only the
\* versions with the geonode branch read), one endpoint beside a failed
\* source, and no endpoint at all.
Feeds ==
  { << TextRes(<< Line("", E1, ""), Line("http://", E1, ""), Line("", E2, "") >>),
       JsonRes(<< Item("3.3.3.3", "3128") >>),
       TextRes(<< >>) >>,
    << ErrRes(FetchTimeout),
       TextRes(<< Line("", "not-an-ip", "") >>),
       TextRes(<< Line("", E3, "") >>) >>,
    << ErrRes(FetchTimeout), ErrRes(FetchLongError),
       TextRes(<< Line("", E1, " # fast") >>) >> }

\* ------------------------------------------------------------------- state
VARIABLES
  version,        \* which of the three tester versions runs
  batchSize,      \* const batchSize
  concurrency,    \* const concurrency
  feed,           \* what each source answers
  plan,           \* what the transport does on each attempt, when scripted
  phase,          \* run(): IDLE, FETCHING, TESTING, FINALIZING, DONE, FAILED
  pc,             \* position inside the current phase
  settled,        \* sources whose fetch callback has finished
  allProxies,     \* this.allProxies, in insertion order
  stats,          \* this.stats
  i,              \* offset of the current batch in proxiesToTest
  probes,         \* the testProxy calls of the current batch, by position
  cursor,         \* position of the next entry of batchResults to process
  totalTested,    \* let totalTested
  workingCount,   \* let workingCount
  workingProxies, \* this.workingProxies
  deadProxies,    \* this.deadProxies
  hasil,          \* content of hasil.txt
  statsJson,      \* content of stats.json
  fatalMessage,   \* error.message caught by run()
  exitCode,       \* "running", or the exit code of the process: "0", "1"
  issued,         \* history: endpoints for which testProxy was called
  rejectedEver,   \* history: endpoints whose testProxy promise rejected
  flush,          \* history: the write of run()'s catch block that failed
  waits,          \* history: number of delays taken between batches
  completed,      \* history: endpoints in the order their calls settled
  now,            \* page cache service: Date.now()
  memoryCache,    \* const memoryCache = new Map()
  cacheFiles,     \* the files of CACHE_DIR
  browserInstance, \* let browserInstance: 0 is null, else the browser's number
  browserContext, \* let browserContext: 0 is null, else its browser's number
  connected,      \* the browsers that are running (isConnected())
  launched,       \* how many browsers chromium.launch has started
  listening,      \* startServer(): "off", "booted", "on", "crashed"
  reqs            \* the requests the service is handling or has answered

config == << version, batchSize, concurrency, feed, plan >>
fetchVars == << settled, allProxies >>
testVars == << i, probes, cursor, totalTested, workingCount >>
resultVars == << workingProxies, deadProxies >>
fileVars == << hasil, statsJson >>
histVars == << issued, rejectedEver, flush, waits, completed >>
testerVars == << config, phase, pc, fetchVars, stats, testVars, resultVars,
                 fileVars, fatalMessage, exitCode, histVars >>
serverVars == << now, memoryCache, cacheFiles, browserInstance, browserContext,
                 connected, launched, listening, reqs >>
vars == << testerVars, serverVars >>

\* How many requests the page cache service receives.
MaxRequests == 2

\* An entry of the page cache: the scraped page and Date.now() at saveCache.
Entry(html, timestamp) == [html |-> html, timestamp |-> timestamp]

NoEntries == [k \in {} |-> Entry("", 0)]

\* A request slot before the request arrives.
NoRequest ==
  [kind |-> "none", key |-> "none", noCache |-> FALSE, pc |-> "idle",
   lookup |-> "none", answer |-> "none", age |-> 0, mine |-> 0]

\* The page cache service as its script leaves it before startServer().
ServiceLoaded ==
  /\ now = 0
  /\ memoryCache = NoEntries
  /\ browserInstance = 0
  /\ browserContext = 0
  /\ connected = {}
  /\ launched = 0
  /\ listening = "off"
  /\ reqs = [r \in 1..MaxRequests |-> NoRequest]

\* A file that does not exist; an existing file is the sequence of its
\* newline-terminated lines.
NoFile == << "<no file>" >>

\* stats.json before anything wrote it.
NoStats == [error |-> FALSE, absent |-> TRUE]

\* constructor()
Init ==
  /\ version \in Versions
  /\ batchSize \in 1..MaxBatchSize
  /\ concurrency \in 1..batchSize
  /\ feed \in Feeds
  /\ plan = << >>
  /\ phase = "IDLE"
  /\ pc = "start"
  /\ settled = {}
  /\ allProxies = << >>
  /\ stats = [totalFetched |-> 0, totalTested |-> 0, totalWorking |-> 0,
              totalDead |-> 0, errors |-> << >>,
              sources |-> [n \in {} |-> Undefined]]
  /\ i = 0
  /\ probes = << >>
  /\ cursor = 0
  /\ totalTested = 0
  /\ workingCount = 0
  /\ workingProxies = << >>
  /\ deadProxies = << >>
  /\ hasil = NoFile
  /\ statsJson = NoStats
  /\ fatalMessage = Undefined
  /\ exitCode = "running"
  /\ issued = {}
  /\ rejectedEver = {}
  /\ flush = "none"
  /\ waits = 0
  /\ completed = << >>
  /\ ServiceLoaded
  /\ cacheFiles = NoEntries

\* ------------------------------------------------------------ fetchProxies
\* run() up to the call of fetchProxies, which starts every source fetch.
RunStart ==
  /\ phase = "IDLE"
  /\ phase' = "FETCHING"
  /\ UNCHANGED << serverVars, config, pc, fetchVars, stats, testVars, resultVars,
                  fileVars, fatalMessage, exitCode, histVars >>

\* stats.sources[sourceName] = ...
PutSource(sources, name, rec) ==
  [n \in DOMAIN sources \cup {name} |-> IF n = name THEN rec ELSE sources[n]]

\* The callback of one source, from the answer of axios.get to its return.
FetchSource(s) ==
  /\ phase = "FETCHING"
  /\ s \in SourceIds \ settled
  /\ LET src == proxySources(version)[s]
         res == feed[s]
         proxies == ParseResponse(version, src, res)
         all == AddUnique(allProxies, proxies)
     IN IF res.kind = "error"
        THEN /\ stats' = [stats EXCEPT
                  !.sources = PutSource(@, src.name,
                     [total |-> 0, new |-> 0, status |-> "failed",
                      error |-> Substring(res.message, 100)]),
                  !.errors = Append(@, s)]
             /\ UNCHANGED allProxies
        ELSE /\ allProxies' = all
             /\ stats' = [stats EXCEPT
                  !.sources = PutSource(@, src.name,
                     [total |-> Len(proxies),
                      new |-> Len(all) - Len(allProxies),
                      status |-> "success", error |-> NoMessage])]
  /\ settled' = settled \cup {s}
  /\ UNCHANGED << serverVars, config, phase, pc, testVars, resultVars, fileVars,
                  fatalMessage, exitCode, histVars >>

\* Mutant of AllSourcesSettled: the await resolves with the first source
\* that settles (Promise.race in place of Promise.allSettled).
AllSourcesSettled_Race(done) == done # {}

\* await Promise.allSettled(fetchPromises): every source callback has ended.
AllSourcesSettled(done) == done = SourceIds

\* Mutant of EmptyCheck: run() goes on to testAllProxies with an empty set.
EmptyCheck_Skipped(size) == FALSE

\* if (this.allProxies.size === 0)
EmptyCheck(size) == size = 0

\* Promise.allSettled(fetchPromises) resolves; run() checks allProxies.size.
FetchSettled ==
  /\ phase = "FETCHING"
  /\ AllSourcesSettled(settled)
  /\ stats' = [stats EXCEPT !.totalFetched = Len(allProxies)]
  /\ IF EmptyCheck(Len(allProxies))
     THEN /\ phase' = "FAILED"
          /\ pc' = "fatal"
          /\ fatalMessage' = "No proxies fetched from any source!"
     ELSE /\ phase' = "TESTING"
          /\ pc' = "init"
          /\ UNCHANGED fatalMessage
  /\ UNCHANGED << serverVars, config, fetchVars, testVars, resultVars, fileVars,
                  exitCode, histVars >>

\* --------------------------------------------------------------- testProxy
\* What one axios.get through the proxy can do.  validateStatus makes every
\* status other than 200 a thrown error, so a response is always a 200.
\* A body is kept by what the validation reads: its length, whether it
\* holds an IPv4-shaped substring, whether it holds "origin"; and whether
\* it holds the word "ip", which no version looks for.
Body(len, ip, origin, ipWord) ==
  [len |-> len, ip |-> ip, origin |-> origin, ipWord |-> ipWord]

Bodies ==
  { Body(0, FALSE, FALSE, FALSE),   \* ""
    Body(2, FALSE, FALSE, FALSE),   \* "ok"
    Body(2, FALSE, FALSE, TRUE),    \* "ip"
    Body(9, FALSE, FALSE, FALSE),   \* "<html>..."
    Body(7, TRUE, FALSE, FALSE),    \* "1.1.1.1"
    Body(14, TRUE, TRUE, FALSE) }   \* "origin 1.1.1.1"

\* A thrown value, by what the catch block reads of it.
Thrown(isNull, code, status, message) ==
  [isNull |-> isNull, code |-> code, status |-> status, message |-> message]

TimeoutError == Thrown(FALSE, "ECONNABORTED", Undefined,
                       Message("timeout of 10000ms exceeded", 27))
\* throw "boom": a value without code, response or message
ThrownString == Thrown(FALSE, Undefined, Undefined, NoMessage)
\* throw null
ThrownNull == Thrown(TRUE, Undefined, Undefined, NoMessage)

ThrownValues == {TimeoutError, ThrownString, ThrownNull}

\* validateStatus: status => status === 200 makes any other status an error
\* with error.response.status set.
BadStatusError == Thrown(FALSE, "ERR_BAD_RESPONSE", "503",
                         Message("Request failed with status code 503", 35))
\* The proxy refuses the connection.
RefusedError == Thrown(FALSE, "ECONNREFUSED", Undefined,
                       Message("connect ECONNREFUSED", 20))

\* An outcome is a response with a body or a thrown value; the field that
\* does not apply holds a filler that is never read.
Outcomes ==
  [kind : {"response"}, body : Bodies, error : {ThrownNull}]
    \cup [kind : {"throw"}, body : {Body(0, FALSE, FALSE, FALSE)}, error : ThrownValues]

\* The same with two more errors, for a call of testProxy on its own.
ProbeOutcomes ==
  Outcomes
    \cup [kind : {"throw"}, body : {Body(0, FALSE, FALSE, FALSE)},
          error : {BadStatusError, RefusedError}]

\* if (response.data && ...): a body that is the empty string is falsy
Truthy(body) == body.len > 0

\* Mutant of hasValidData: no body passes the validation.
hasValidData_RejectsAll(v, body) == FALSE

\* const hasValidData = ... / responseText.match(...)
hasValidData(v, body) ==
  IF v = "fixed"
  THEN body.ip \/ body.origin \/ body.len > 5
  ELSE body.ip

\* Mutant of TargetOf: every retry asks the target of the start index again.
TargetOf_NoRotation(v, testUrlIndex, retry) ==
  (testUrlIndex % Len(testUrls(v))) + 1

\* (testUrlIndex + retry) % testUrls.length, as a position of testUrls
TargetOf(v, testUrlIndex, retry) ==
  ((testUrlIndex + retry) % Len(testUrls(v))) + 1

\* The value testProxy resolves with.  A count that is not set (attempt on
\* a failure, attempts on a success) is 0; a text that is not set is
\* Undefined.
Result(proxy, success, responseTime, testUrl, attempt, attempts, error) ==
  [proxy |-> proxy, success |-> success, responseTime |-> responseTime,
   testUrl |-> testUrl, attempt |-> attempt, attempts |-> attempts,
   error |-> error]

\* A call of testProxy: its arguments, its loop variable, the time since
\* startTime, and the state of its promise.  `tried` lists the targets it
\* has requested.
NewProbe(proxy, testUrlIndex) ==
  [proxy |-> proxy, testUrlIndex |-> testUrlIndex, retry |-> 0,
   elapsed |-> 0, state |-> "pending",
   value |-> Result(proxy, FALSE, 0, Undefined, 0, 0, Undefined),
   tried |-> << >>]

Fulfil(pr, value) == [pr EXCEPT !.state = "fulfilled", !.value = value]

Reject(pr) == [pr EXCEPT !.state = "rejected"]

\* The end of one loop iteration that did not return: retry++, and the
\* return after the loop when that was the last iteration.
AfterLoop(v, pr) ==
  Fulfil(pr,
    CASE v = "fixed" ->
           Result(pr.proxy, FALSE, pr.elapsed, "multiple", 0,
                  maxRetries(v), "All test URLs failed")
      [] v = "realtime" ->
           Result(pr.proxy, FALSE, pr.elapsed,
                  SplitSlash2(testUrls(v)[pr.testUrlIndex + 1]), 0,
                  maxRetries(v), Undefined)
      [] v = "basic" ->
           Result(pr.proxy, FALSE, pr.elapsed, Undefined, 0,
                  maxRetries(v), Undefined))

\* Mutant of NextRetry: a failed attempt does not advance the loop.
NextRetry_SameRetry(v, pr) == pr

\* Mutant of NextRetry: a failed attempt ends the loop.
NextRetry_GivesUp(v, pr) == AfterLoop(v, pr)

NextRetry(v, pr) ==
  IF pr.retry + 1 < maxRetries(v)
  THEN [pr EXCEPT !.retry = @ + 1]
  ELSE AfterLoop(v, pr)

\* Mutant of ReturnSuccess: a valid response does not end the loop.
ReturnSuccess_KeepsTrying(v, pr) == NextRetry(v, pr)

\* The return inside `if (hasValidData)`.
ReturnSuccess(v, pr) ==
  LET url == testUrls(v)[TargetOf(v, pr.testUrlIndex, pr.retry)]
  IN Fulfil(pr, Result(pr.proxy, TRUE, pr.elapsed,
                       IF v = "fixed" THEN Hostname(url) ELSE SplitSlash2(url),
                       pr.retry + 1, 0, Undefined))

\* The try block after axios.get resolved with `body`.
OnResponse(v, pr, body) ==
  IF Truthy(body) /\ hasValidData(v, body)
  THEN ReturnSuccess(v, pr)
  ELSE NextRetry(v, pr)

\* error.code || error.response?.status || 'UNKNOWN'
ErrorType(error) ==
  IF error.code # Undefined THEN error.code
  ELSE IF error.status # Undefined THEN error.status
  ELSE "UNKNOWN"

\* The catch block raises a TypeError itself when it reads a property of
\* null ("fixed" reads error.code on every retry) or calls substring on a
\* message that is not there (on the last retry).
CatchThrows(v, pr, error) ==
  LET last == pr.retry = maxRetries(v) - 1
  IN \/ v = "fixed" /\ error.isNull
     \/ last /\ (error.isNull \/ error.message = NoMessage)

\* The return inside `if (retry === maxRetries - 1)` of the catch block.
ReturnCaught(v, pr, error) ==
  LET url == testUrls(v)[TargetOf(v, pr.testUrlIndex, pr.retry)]
      msg == Substring(error.message, 50).text
  IN Fulfil(pr,
       CASE v = "fixed" ->
              Result(pr.proxy, FALSE, pr.elapsed, SplitSlash2(url), 0,
                     pr.retry + 1, ErrorType(error) \o ": " \o msg)
         [] v = "realtime" ->
              Result(pr.proxy, FALSE, pr.elapsed, SplitSlash2(url), 0,
                     pr.retry + 1, msg)
         [] v = "basic" ->
              Result(pr.proxy, FALSE, pr.elapsed, Undefined, 0,
                     pr.retry + 1, msg))

\* The catch block.
OnThrow(v, pr, error) ==
  IF CatchThrows(v, pr, error) THEN Reject(pr)
  ELSE IF pr.retry = maxRetries(v) - 1 THEN ReturnCaught(v, pr, error)
  ELSE NextRetry(v, pr)

\* One iteration of the retry loop of testProxy, given what the transport did.
TestProxyStep(v, pr, out) ==
  LET q == [pr EXCEPT !.tried = Append(@, TargetOf(v, pr.testUrlIndex, pr.retry))]
  IN IF out.kind = "response"
     THEN OnResponse(v, q, out.body)
     ELSE OnThrow(v, q, out.error)

\* ------------------------------------------------------------------- files
CommentLines(n) == [k \in 1..n |-> "#"]

\* fs.appendFile(file, line + "\n"): creates the file when it is missing
AppendLine(file, line) ==
  IF file = NoFile THEN << line >> ELSE Append(file, line)

\* The header initializeResultFiles writes to hasil.txt: two comment lines
\* and an empty line.
InitHeader == CommentLines(2) \o << "" >>

\* list.join('\n') + '\n'
JoinLines(list) == IF list = << >> THEN << "" >> ELSE list

\* finalHeader of saveResults: 7 ("fixed") or 8 ("realtime") comment lines
\* and an empty line; "basic" writes no header.
FinalHeader(v) ==
  CASE v = "fixed" -> CommentLines(7) \o << "" >>
    [] v = "realtime" -> CommentLines(8) \o << "" >>
    [] v = "basic" -> << >>

\* currentContent.split('\n') of a file that exists
SplitLines(file) == Append(file, "")

\* The loop of updateResultsHeader: the index after the first empty line
\* that is not the first line; 0 when there is none (0-based).
ProxyStartIndex(lines) ==
  LET blank == {k \in 2..Len(lines) : lines[k] = ""}
  IN IF blank = {} THEN 0
     ELSE (CHOOSE k \in blank : \A m \in blank : k <= m)

\* header + lines.slice(proxyStartIndex).join('\n'), as terminated lines:
\* the slice ends with the "" that split put after the last newline.
UpdatedFile(file) ==
  LET lines == SplitLines(file)
      rest == SubSeq(lines, ProxyStartIndex(lines) + 1, Len(lines))
  IN CommentLines(5) \o << "" >>
       \o (IF rest = << >> THEN << >> ELSE SubSeq(rest, 1, Len(rest) - 1))

\* ----------------------------------------------------------- testAllProxies
N == Len(allProxies)

\* batch = proxiesToTest.slice(i, i + batchSize), as positions 1..N
BatchPositions == (i + 1)..Min(i + batchSize, N)

\* The j of the concurrency group a position of the batch falls into, and
\* its idx inside the group.
GroupOf(p) == ((p - 1 - i) \div concurrency) * concurrency

IdxOf(p) == (p - 1 - i) % concurrency

\* Mutant of StartIndex: the offset of the concurrency group is left out.
StartIndex_NoGroupOffset(v, bi, j, idx) == (bi + idx) % Len(testUrls(v))

\* (i + j + idx) % testUrls.length
StartIndex(v, bi, j, idx) == (bi + j + idx) % Len(testUrls(v))

Pending == {p \in DOMAIN probes : probes[p].state = "pending"}

\* Mutant of AwaitBatch: Promise.all over the calls themselves, which
\* rejects as soon as one call rejects.
AwaitBatch_PromiseAll(ps) ==
  IF \E p \in DOMAIN ps : ps[p].state = "rejected" THEN "rejected"
  ELSE IF \A p \in DOMAIN ps : ps[p].state # "pending" THEN "resolved"
  ELSE "pending"

\* Mutant of AwaitBatch: the results are read without waiting for the calls.
AwaitBatch_NoWait(ps) == "resolved"

\* await Promise.all(batchPromises), each entry a Promise.allSettled of one
\* group: it resolves once every call has settled, and a rejected call is
\* an entry of the result, never a rejection of the await.
AwaitBatch(ps) ==
  IF \A p \in DOMAIN ps : ps[p].state # "pending" THEN "resolved" ELSE "pending"

AllSettled == AwaitBatch(probes) = "resolved"

\* What run()'s catch block sees when something throws.
Throw(message) ==
  /\ phase' = "FAILED"
  /\ pc' = "fatal"
  /\ fatalMessage' = message

\* Whether a write can fail: "basic" has no file access inside testAllProxies.
FsOutcomes(v) == IF v = "basic" THEN {TRUE} ELSE BOOLEAN

\* testAllProxies up to the batch loop, with initializeResultFiles.
TestStart ==
  /\ phase = "TESTING" /\ pc = "init"
  /\ IF N = 0
     THEN phase' = "FINALIZING" /\ pc' = "save" /\ UNCHANGED hasil
     ELSE /\ \E ok \in FsOutcomes(version) :
               hasil' = IF version # "basic" /\ ok THEN InitHeader ELSE hasil
          /\ pc' = "loop"
          /\ UNCHANGED phase
  /\ i' = 0 /\ totalTested' = 0 /\ workingCount' = 0
  /\ UNCHANGED << serverVars, config, fetchVars, stats, probes, cursor, resultVars,
                  statsJson, fatalMessage, exitCode, histVars >>

\* All concurrency groups of the batch at offset i: the loop over j runs to
\* its end without awaiting, so every testProxy of the batch is called here.
IssuedProbes ==
  [p \in BatchPositions |->
     NewProbe(allProxies[p],
              StartIndex(version, i, GroupOf(p), IdxOf(p)))]

IssueBatch ==
  /\ phase = "TESTING" /\ pc = "loop"
  /\ i < N
  /\ probes' = IssuedProbes
  /\ cursor' = i + 1
  /\ issued' = issued \cup {allProxies[p] : p \in BatchPositions}
  /\ pc' = "await"
  /\ UNCHANGED << serverVars, config, phase, fetchVars, stats, i, totalTested,
                  workingCount, resultVars, fileVars, fatalMessage, exitCode,
                  rejectedEver, flush, waits, completed >>

\* The call at position p becomes q; a rejection of the awaited batch
\* promise would throw out of testAllProxies.
Settle(p, q) ==
  /\ probes' = [probes EXCEPT ![p] = q]
  /\ rejectedEver' = IF q.state = "rejected"
                     THEN rejectedEver \cup {q.proxy}
                     ELSE rejectedEver
  /\ completed' = IF q.state # "pending"
                  THEN Append(completed, q.proxy)
                  ELSE completed
  /\ IF AwaitBatch([probes EXCEPT ![p] = q]) = "rejected"
     THEN Throw("batch rejected")
     ELSE UNCHANGED << phase, pc, fatalMessage >>
  /\ UNCHANGED << serverVars, config, fetchVars, stats, i, cursor, totalTested,
                  workingCount, resultVars, fileVars, exitCode, issued, flush,
                  waits >>

\* One request of one testProxy call comes back.
Attempt(p) ==
  /\ phase = "TESTING" /\ pc = "await"
  /\ p \in Pending
  /\ \E out \in Outcomes : Settle(p, TestProxyStep(version, probes[p], out))

\* Time passes for every call in flight (Date.now() - startTime grows).
Tick ==
  /\ phase = "TESTING" /\ pc = "await"
  /\ Pending # {}
  /\ \A p \in Pending : probes[p].elapsed < MaxElapsed
  /\ probes' = [p \in DOMAIN probes |->
                  IF p \in Pending
                  THEN [probes[p] EXCEPT !.elapsed = @ + 1]
                  ELSE probes[p]]
  /\ UNCHANGED << serverVars, config, phase, pc, fetchVars, stats, i, cursor, totalTested,
                  workingCount, resultVars, fileVars, fatalMessage, exitCode,
                  histVars >>

\* const workingProxy = {...}
WorkingProxy(v, r) ==
  [proxy |-> r.proxy, responseTime |-> r.responseTime, testUrl |-> r.testUrl,
   attempt |-> IF v = "basic" THEN 0 ELSE r.attempt]

\* const deadProxy = {...}
DeadProxy(v, r) ==
  [proxy |-> r.proxy, responseTime |-> r.responseTime, error |-> r.error,
   attempts |-> IF v = "basic" THEN 0 ELSE r.attempts,
   testUrl |-> IF v = "basic" THEN Undefined ELSE r.testUrl]

\* if (result.status === 'fulfilled'): only such an entry is recorded
Recorded(pr) == pr.state = "fulfilled"

\* One entry of batchResults, in the order of the batch, once every call of
\* the batch has settled.  The appends to the files are in try/catch.
ProcessResult ==
  /\ phase = "TESTING" /\ pc = "await"
  /\ AllSettled
  /\ cursor \in DOMAIN probes
  /\ LET pr == probes[cursor]
     IN IF ~Recorded(pr)
        THEN UNCHANGED << totalTested, workingCount, resultVars, hasil >>
        ELSE /\ totalTested' = totalTested + 1
             /\ IF pr.value.success
                THEN /\ workingProxies' =
                          Append(workingProxies, WorkingProxy(version, pr.value))
                     /\ workingCount' = workingCount + 1
                     /\ \E ok \in FsOutcomes(version) :
                          hasil' = IF version # "basic" /\ ok
                                   THEN AppendLine(hasil, pr.value.proxy)
                                   ELSE hasil
                     /\ UNCHANGED deadProxies
                ELSE /\ deadProxies' =
                          Append(deadProxies, DeadProxy(version, pr.value))
                     /\ UNCHANGED << workingProxies, workingCount, hasil >>
  /\ cursor' = cursor + 1
  /\ UNCHANGED << serverVars, config, phase, pc, fetchVars, stats, i, probes, statsJson,
                  fatalMessage, exitCode, histVars >>

\* Mutant of MoreBatches: the delay is taken after every batch.
MoreBatches_Always(bi, size, n) == TRUE

\* if (i + batchSize < proxiesToTest.length)
MoreBatches(bi, size, n) == bi + size < n

\* After the results loop: the batch summary is appended to the live log
\* outside any try ("fixed", "realtime"), "realtime" rewrites the header of
\* hasil.txt, and the loop goes on to the delay or to its end.
BatchSummary ==
  /\ phase = "TESTING" /\ pc = "await"
  /\ AllSettled
  /\ cursor \notin DOMAIN probes
  /\ \E ok \in FsOutcomes(version) :
       IF ~ok
       THEN Throw("live log append failed") /\ UNCHANGED << i, hasil >>
       ELSE /\ \E okHeader \in BOOLEAN :
                 hasil' = IF version = "realtime" /\ okHeader /\ hasil # NoFile
                          THEN UpdatedFile(hasil)
                          ELSE hasil
            /\ IF MoreBatches(i, batchSize, N)
               THEN pc' = "delay" /\ UNCHANGED i
               ELSE pc' = "loop" /\ i' = i + batchSize
            /\ UNCHANGED << phase, fatalMessage >>
  /\ probes' = << >>
  /\ UNCHANGED << serverVars, config, fetchVars, stats, cursor, totalTested, workingCount,
                  resultVars, statsJson, exitCode, histVars >>

\* await new Promise(resolve => setTimeout(resolve, ...)) between batches
Delay ==
  /\ phase = "TESTING" /\ pc = "delay"
  /\ i' = i + batchSize
  /\ pc' = "loop"
  /\ waits' = waits + 1
  /\ UNCHANGED << serverVars, config, phase, fetchVars, stats, probes, cursor, totalTested,
                  workingCount, resultVars, fileVars, fatalMessage, exitCode,
                  issued, rejectedEver, flush, completed >>

\* After the batch loop: the totals go to stats, then the closing line is
\* appended to the live log outside any try.
TestingDone ==
  /\ phase = "TESTING" /\ pc = "loop"
  /\ i >= N
  /\ stats' = [stats EXCEPT !.totalTested = totalTested,
                            !.totalWorking = Len(workingProxies),
                            !.totalDead = Len(deadProxies)]
  /\ \E ok \in FsOutcomes(version) :
       IF ok
       THEN phase' = "FINALIZING" /\ pc' = "save" /\ UNCHANGED fatalMessage
       ELSE Throw("live log append failed")
  /\ UNCHANGED << serverVars, config, fetchVars, testVars, resultVars, fileVars, exitCode,
                  histVars >>

\* -------------------------------------------------------------- saveResults
RECURSIVE InsertByTime_BeforeEquals(_, _)
\* Mutant of InsertByTime: x goes before the elements that are as slow as
\* it (a sort that is not stable).
InsertByTime_BeforeEquals(sorted, x) ==
  IF sorted = << >> THEN << x >>
  ELSE IF Head(sorted).responseTime < x.responseTime
       THEN << Head(sorted) >> \o InsertByTime_BeforeEquals(Tail(sorted), x)
       ELSE << x >> \o sorted

RECURSIVE InsertByTime(_, _)
\* Where a stable sort puts x into the sorted list: after every element
\* that is not slower than it.
InsertByTime(sorted, x) ==
  IF sorted = << >> THEN << x >>
  ELSE IF Head(sorted).responseTime <= x.responseTime
       THEN << Head(sorted) >> \o InsertByTime(Tail(sorted), x)
       ELSE << x >> \o sorted

RECURSIVE SortedUpTo(_, _)
SortedUpTo(list, n) ==
  IF n = 0 THEN << >> ELSE InsertByTime(SortedUpTo(list, n - 1), list[n])

\* Mutant of SortByResponseTime: the list is left in completion order.
SortByResponseTime_None(list) == list

\* this.workingProxies.sort((a, b) => a.responseTime - b.responseTime)
SortByResponseTime(list) == SortedUpTo(list, Len(list))

\* this.workingProxies.map(p => p.proxy)
ProxyColumn(list) == [k \in DOMAIN list |-> list[k].proxy]

\* statsData.summary, with sources and errors
StatsData ==
  [error |-> FALSE, totalFetched |-> stats.totalFetched,
   totalTested |-> stats.totalTested, totalWorking |-> stats.totalWorking,
   totalDead |-> stats.totalDead, sources |-> stats.sources,
   errors |-> stats.errors]

\* The writes of saveResults in their order; the first that fails throws.
SaveSteps(v) ==
  IF v = "realtime" THEN {"ok", "hasil", "stats", "logs"}
  ELSE {"ok", "hasil", "stats"}

\* saveResults(), and the return of run() when it succeeds.
SaveResults ==
  /\ phase = "FINALIZING" /\ pc = "save"
  /\ LET sorted == SortByResponseTime(workingProxies)
     IN /\ workingProxies' = sorted
        /\ \E failing \in SaveSteps(version) :
             /\ hasil' = IF failing = "hasil" THEN hasil
                         ELSE FinalHeader(version) \o JoinLines(ProxyColumn(sorted))
             /\ statsJson' = IF failing \in {"hasil", "stats"} THEN statsJson
                             ELSE StatsData
             /\ IF failing = "ok"
                THEN /\ phase' = "DONE" /\ pc' = "end"
                     /\ exitCode' = "0"
                     /\ UNCHANGED fatalMessage
                ELSE Throw("write failed") /\ UNCHANGED exitCode
  /\ UNCHANGED << serverVars, config, fetchVars, stats, testVars, deadProxies, histVars >>

\* ---------------------------------------------------- run(): the catch block
\* errorStats
ErrorStats ==
  [error |-> TRUE, message |-> fatalMessage,
   fetched |-> stats.totalFetched, tested |-> stats.totalTested,
   working |-> Len(workingProxies)]

\* Mutant of FatalHasil: the catch block writes the error note only.
FatalHasil_ErrorOnly == CommentLines(2)

\* What the catch block writes to hasil.txt.
FatalHasil ==
  IF Len(workingProxies) > 0
  THEN ProxyColumn(workingProxies)
  ELSE CommentLines(2)

\* Mutant of FatalExit: the catch block ends without a failure code.
FatalExit_Zero == "0"

\* process.exit(1)
FatalExit == "1"

\* The writes of the catch block share one try: stats.json first, then
\* hasil.txt; the first that fails skips the rest.  Then process.exit(1).
FatalFlush ==
  /\ phase = "FAILED" /\ pc = "fatal"
  /\ \E failing \in {"ok", "stats", "hasil"} :
       /\ statsJson' = IF failing = "stats" THEN statsJson ELSE ErrorStats
       /\ hasil' = IF failing = "ok" THEN FatalHasil ELSE hasil
       /\ flush' = failing
  /\ exitCode' = FatalExit
  /\ pc' = "exited"
  /\ UNCHANGED << serverVars, config, phase, fetchVars, stats, testVars, resultVars,
                  fatalMessage, issued, rejectedEver, waits, completed >>

\* ------------------------------------------------------------ specification
Next ==
  \/ RunStart
  \/ \E s \in SourceIds : FetchSource(s)
  \/ FetchSettled
  \/ TestStart
  \/ IssueBatch
  \/ \E p \in DOMAIN probes : Attempt(p)
  \/ Tick
  \/ ProcessResult
  \/ BatchSummary
  \/ Delay
  \/ TestingDone
  \/ SaveResults
  \/ FatalFlush

Spec == Init /\ [][Next]_vars

\* The steps of the program and of the transport: everything but the
\* passing of time.
ProgramStep ==
  \/ RunStart
  \/ \E s \in SourceIds : FetchSource(s)
  \/ FetchSettled
  \/ TestStart
  \/ IssueBatch
  \/ \E p \in DOMAIN probes : Attempt(p)
  \/ ProcessResult
  \/ BatchSummary
  \/ Delay
  \/ TestingDone
  \/ SaveResults
  \/ FatalFlush

\* A run in which the event loop keeps running what is ready and every
\* request comes back: axios.get has a timeout, so does every source fetch.
\* The measured times play no part in what runs next and stay 0 here.
SpecLive == Init /\ [][ProgramStep]_vars /\ WF_vars(ProgramStep)

\* ------------------------------------------------- testProxy on its own
\* One call of testProxy for every start index, against a transport whose
\* answer to each attempt is scripted in `plan`.
InitProbe ==
  /\ version \in Versions
  /\ batchSize = 1
  /\ concurrency = 1
  /\ feed \in Feeds
  /\ plan \in [1..maxRetries(version) -> ProbeOutcomes]
  /\ phase = "TESTING"
  /\ pc = "await"
  /\ settled = SourceIds
  /\ allProxies = << E1 >>
  /\ stats = [totalFetched |-> 1, totalTested |-> 0, totalWorking |-> 0,
              totalDead |-> 0, errors |-> << >>,
              sources |-> [n \in {} |-> Undefined]]
  /\ i = 0
  /\ \E idx \in 0..(Len(testUrls(version)) - 1) :
       probes = [p \in {1} |-> NewProbe(E1, idx)]
  /\ cursor = 1
  /\ totalTested = 0
  /\ workingCount = 0
  /\ workingProxies = << >>
  /\ deadProxies = << >>
  /\ hasil = NoFile
  /\ statsJson = NoStats
  /\ fatalMessage = Undefined
  /\ exitCode = "running"
  /\ issued = {E1}
  /\ rejectedEver = {}
  /\ flush = "none"
  /\ waits = 0
  /\ completed = << >>
  /\ ServiceLoaded
  /\ cacheFiles = NoEntries

\* The next request of the call comes back as the script says.
ScriptedAttempt ==
  /\ phase = "TESTING" /\ pc = "await"
  /\ 1 \in Pending
  /\ Settle(1, TestProxyStep(version, probes[1], plan[probes[1].retry + 1]))

NextProbe == ScriptedAttempt \/ Tick

SpecProbe == InitProbe /\ [][NextProbe]_vars

\* ---------------------------------------------------- fetchProxies on its own
\* What one source can answer: the same endpoint with and without scheme,
\* twice; a commented endpoint among malformed lines; a JSON list with a
\* repeated and a malformed entry; two errors; two plain endpoints; two
\* candidates whose port is outside 1..65535.
Responses ==
  { TextRes(<< Line("", E4, ""), Line("http://", E4, ""),
               Line("", E4, ""), Line("http://", E4, "") >>),
    TextRes(<< Line("", E2, " # fast"), Line("", "not-an-ip", ""),
               Line("", "1.2.3.4", ""), Line("", "1.2.3.4:999999", "") >>),
    JsonRes(<< Item("3.3.3.3", "3128"), Item("proxy.example", "80"),
               Item("3.3.3.3", "3128") >>),
    ErrRes(FetchTimeout),
    ErrRes(FetchLongError),
    TextRes(<< Line("", E1, ""), Line("", E2, "") >>),
    TextRes(<< Line("", E5, ""), Line("", E6, "") >>) }

FetchFeeds == { << a, b, c >> : a, b, c \in Responses }

\* constructor(), with any answer from every source.
InitFetch ==
  /\ version \in Versions
  /\ batchSize = 1
  /\ concurrency = 1
  /\ feed \in FetchFeeds
  /\ plan = << >>
  /\ phase = "IDLE"
  /\ pc = "start"
  /\ settled = {}
  /\ allProxies = << >>
  /\ stats = [totalFetched |-> 0, totalTested |-> 0, totalWorking |-> 0,
              totalDead |-> 0, errors |-> << >>,
              sources |-> [n \in {} |-> Undefined]]
  /\ i = 0
  /\ probes = << >>
  /\ cursor = 0
  /\ totalTested = 0
  /\ workingCount = 0
  /\ workingProxies = << >>
  /\ deadProxies = << >>
  /\ hasil = NoFile
  /\ statsJson = NoStats
  /\ fatalMessage = Undefined
  /\ exitCode = "running"
  /\ issued = {}
  /\ rejectedEver = {}
  /\ flush = "none"
  /\ waits = 0
  /\ completed = << >>
  /\ ServiceLoaded
  /\ cacheFiles = NoEntries

\* run() up to the return of fetchProxies and the check of the set's size.
NextFetch ==
  \/ RunStart
  \/ \E s \in SourceIds : FetchSource(s)
  \/ FetchSettled

SpecFetch == InitFetch /\ [][NextFetch]_vars

\* ------------------------------------------------- a run against a fixed transport
\* Two endpoints from the first source, nothing from the others.
ScenarioFeed ==
  << TextRes(<< Line("", E1, ""), Line("", E2, "") >>),
     TextRes(<< >>),
     TextRes(<< >>) >>

\* A request that fails: a timeout, a 200 with an empty body, a 200 with
\* the body "ok".
FailingOutcomes ==
  { [kind |-> "throw", body |-> Body(0, FALSE, FALSE, FALSE), error |-> TimeoutError],
    [kind |-> "response", body |-> Body(0, FALSE, FALSE, FALSE), error |-> ThrownNull],
    [kind |-> "response", body |-> Body(2, FALSE, FALSE, FALSE), error |-> ThrownNull] }

\* The transport of the run: through 1.1.1.1:80 the first verification URL
\* answers 200 with the body "origin 1.1.1.1" and the others time out;
\* through any other proxy every request fails as `plan` says.
ScenarioOutcome(v, pr) ==
  IF pr.proxy = E1
  THEN IF TargetOf(v, pr.testUrlIndex, pr.retry) = 1
       THEN [kind |-> "response", body |-> Body(14, TRUE, TRUE, FALSE),
             error |-> ThrownNull]
       ELSE [kind |-> "throw", body |-> Body(0, FALSE, FALSE, FALSE),
             error |-> TimeoutError]
  ELSE plan[pr.retry + 1]

\* constructor(), with the sources and the transport fixed.
InitScenario ==
  /\ version \in Versions
  /\ batchSize \in 1..MaxBatchSize
  /\ concurrency \in 1..batchSize
  /\ feed = ScenarioFeed
  /\ plan \in [1..maxRetries(version) -> FailingOutcomes]
  /\ phase = "IDLE"
  /\ pc = "start"
  /\ settled = {}
  /\ allProxies = << >>
  /\ stats = [totalFetched |-> 0, totalTested |-> 0, totalWorking |-> 0,
              totalDead |-> 0, errors |-> << >>,
              sources |-> [n \in {} |-> Undefined]]
  /\ i = 0
  /\ probes = << >>
  /\ cursor = 0
  /\ totalTested = 0
  /\ workingCount = 0
  /\ workingProxies = << >>
  /\ deadProxies = << >>
  /\ hasil = NoFile
  /\ statsJson = NoStats
  /\ fatalMessage = Undefined
  /\ exitCode = "running"
  /\ issued = {}
  /\ rejectedEver = {}
  /\ flush = "none"
  /\ waits = 0
  /\ completed = << >>
  /\ ServiceLoaded
  /\ cacheFiles = NoEntries

\* One request of one testProxy call comes back as the transport says.
ScenarioAttempt(p) ==
  /\ phase = "TESTING" /\ pc = "await"
  /\ p \in Pending
  /\ Settle(p, TestProxyStep(version, probes[p],
                             ScenarioOutcome(version, probes[p])))

NextScenario ==
  \/ RunStart
  \/ \E s \in SourceIds : FetchSource(s)
  \/ FetchSettled
  \/ TestStart
  \/ IssueBatch
  \/ \E p \in DOMAIN probes : ScenarioAttempt(p)
  \/ Tick
  \/ ProcessResult
  \/ BatchSummary
  \/ Delay
  \/ TestingDone
  \/ SaveResults
  \/ FatalFlush

SpecScenario == InitScenario /\ [][NextScenario]_vars

\* ------------------------------------------------------------------ claims
RecordedProxies ==
  Range(ProxyColumn(workingProxies)) \cup Range(ProxyColumn(deadProxies))

\* testAllProxies has returned normally.
TestingFinished == phase \in {"FINALIZING", "DONE"}

NoDuplicates(col) == \A a, b \in DOMAIN col : a # b => col[a] # col[b]

\* C1: when testAllProxies finishes, exactly N results have been recorded
\* (working plus dead), with pairwise distinct endpoints that are exactly
\* the endpoints of the input set.
C1_CompletionCoverage ==
  TestingFinished =>
    /\ Len(workingProxies) + Len(deadProxies) = N
    /\ NoDuplicates(ProxyColumn(workingProxies) \o ProxyColumn(deadProxies))
    /\ RecordedProxies = Range(allProxies)

\* C2: an endpoint whose probe rejected is still recorded as a failed
\* result: it is in deadProxies and counted in totalTested, so N endpoints
\* give N tested.
C2_FaultConversion ==
  TestingFinished =>
    /\ \A e \in rejectedEver : e \in Range(ProxyColumn(deadProxies))
    /\ stats.totalTested = N

\* C3: a rejected probe never aborts its batch or the run: the run never
\* fails while calls of a batch are in flight nor because a batch promise
\* rejected, and when testing has finished every endpoint was probed and
\* every endpoint whose probe did not reject has its result recorded.
C3_FaultIsolation ==
  /\ phase = "FAILED" => Pending = {} /\ fatalMessage # "batch rejected"
  /\ TestingFinished =>
       /\ issued = Range(allProxies)
       /\ \A e \in Range(allProxies) \ rejectedEver : e \in RecordedProxies

\* C3 witness: the probe of the first endpoint rejected, and the second
\* endpoint (same batch or the next one) was probed and recorded.
C3_Witness ==
  /\ TestingFinished
  /\ E1 \in rejectedEver
  /\ E2 \in RecordedProxies

\* C4: at most `concurrency` probes are in flight, and the probes in flight
\* all belong to one concurrency group (the next group is not issued before
\* the current one has completed).
C4_ConcurrencyBound ==
  /\ Cardinality(Pending) <= concurrency
  /\ \A p, q \in Pending : GroupOf(p) = GroupOf(q)

C5_NoDuplicates ==
  NoDuplicates(ProxyColumn(workingProxies) \o ProxyColumn(deadProxies))

C5_Kept ==
  /\ Range(workingProxies) \subseteq Range(workingProxies')
  /\ Range(deadProxies) \subseteq Range(deadProxies')

\* C5: in every state each endpoint appears at most once across
\* workingProxies and deadProxies together, and no step changes or removes
\* a recorded result (the sort of saveResults only reorders).
C5_AtMostOnce == []C5_NoDuplicates /\ [][C5_Kept]_vars

\* C5 witness: a finished run with results in both lists.
C5_Witness ==
  /\ phase = "DONE"
  /\ Len(workingProxies) >= 1
  /\ Len(deadProxies) >= 1

\* The scripted answer to attempt k is a 200 whose body passes validation.
ValidAt(k) ==
  /\ plan[k].kind = "response"
  /\ Truthy(plan[k].body)
  /\ hasValidData(version, plan[k].body)

\* C6: when attempt k is the first whose answer is a 200 with a body that
\* passes validation and the probe got as far as attempt k, the probe has
\* resolved with success=true and attempt=k and has made exactly k attempts.
C6_ShortCircuit ==
  \A k \in DOMAIN plan :
    ( /\ ValidAt(k)
      /\ \A m \in 1..(k - 1) : ~ValidAt(m)
      /\ Len(probes[1].tried) >= k )
    => /\ probes[1].state = "fulfilled"
       /\ probes[1].value.success
       /\ probes[1].value.attempt = k
       /\ Len(probes[1].tried) = k

\* C6 witness: attempt 1 failed, attempt 2 succeeded, a third target remained.
C6_Witness ==
  /\ plan # << >>
  /\ maxRetries(version) = 3
  /\ ~ValidAt(1) /\ ValidAt(2)
  /\ probes[1].state = "fulfilled"
  /\ probes[1].value.attempt = 2

\* The transport times out on every attempt.
AllTimeout ==
  /\ plan # << >>
  /\ \A k \in DOMAIN plan : plan[k].kind = "throw" /\ plan[k].error = TimeoutError

\* The first n targets in round-robin order from the start index of the probe.
RoundRobin(n) ==
  [r \in 1..n |->
     ((probes[1].testUrlIndex + r - 1) % Len(testUrls(version))) + 1]

\* C7 as stated: with a timeout on every attempt the probe returns
\* success=false with attempts = maxRetries, having tried every
\* verification target exactly once in round-robin order.
C7_EveryTargetOnce ==
  (AllTimeout /\ probes[1].state # "pending") =>
    /\ probes[1].state = "fulfilled"
    /\ ~probes[1].value.success
    /\ probes[1].value.attempts = maxRetries(version)
    /\ probes[1].tried = RoundRobin(Len(testUrls(version)))

\* C7 amended: with a timeout on every attempt the probe returns
\* success=false with attempts = maxRetries, having tried the first
\* maxRetries targets of the round-robin order from its start index, each
\* once (all of them only when maxRetries equals the number of targets).
C7_RetryExhaustion ==
  (AllTimeout /\ probes[1].state # "pending") =>
    /\ probes[1].state = "fulfilled"
    /\ ~probes[1].value.success
    /\ probes[1].value.attempts = maxRetries(version)
    /\ probes[1].tried = RoundRobin(maxRetries(version))
    /\ NoDuplicates(probes[1].tried)
    /\ (maxRetries(version) = Len(testUrls(version))
          => Range(probes[1].tried) = DOMAIN testUrls(version))

\* C7 witness: two timeouts from the last of four targets, wrapping around.
C7_Witness ==
  /\ AllTimeout
  /\ version = "basic"
  /\ probes[1].testUrlIndex = 3
  /\ probes[1].state = "fulfilled"
  /\ probes[1].tried = << 4, 1 >>

\* C8: testProxy never rejects, whatever the transport does.
C8_NeverRejects == \A p \in DOMAIN probes : probes[p].state # "rejected"

\* C9: after saveResults the working list is in ascending order of
\* responseTime, and the results file lists the endpoints in that order.
C9_SortedSummary ==
  phase = "DONE" =>
    /\ \A k \in 1..(Len(workingProxies) - 1) :
         workingProxies[k].responseTime <= workingProxies[k + 1].responseTime
    /\ hasil = FinalHeader(version) \o JoinLines(ProxyColumn(workingProxies))

\* C9 witness: the second endpoint answered faster and was moved first.
C9_Witness ==
  /\ phase = "DONE"
  /\ ProxyColumn(workingProxies) = << E2, E1 >>
  /\ workingProxies[1].responseTime < workingProxies[2].responseTime

C11_EmptySetIsFatal ==
  (phase \notin {"IDLE", "FETCHING"} /\ N = 0) =>
    /\ phase = "FAILED"
    /\ fatalMessage = "No proxies fetched from any source!"
    /\ issued = {} /\ probes = << >>
    /\ workingProxies = << >> /\ deadProxies = << >>
    /\ statsJson \in {NoStats, ErrorStats}
    /\ exitCode \in {"running", "1"}
    /\ pc = "exited" => exitCode = "1"

\* C11 witness: a run whose three sources gave no endpoint has exited.
C11_Witness ==
  /\ settled = SourceIds /\ N = 0
  /\ phase = "FAILED" /\ pc = "exited" /\ exitCode = "1"

\* C12: the process exits with a non-zero code exactly when the run is
\* FAILED: a run that reached DONE exits 0 (also with no working endpoint),
\* a failed run exits 1 and no other way, and it does so only after the
\* catch block has attempted the flush of the partial results.
C12_ExitContract ==
  /\ exitCode = "1" => phase = "FAILED" /\ pc = "exited" /\ flush # "none"
  /\ exitCode = "0" => phase = "DONE" /\ N >= 1
  /\ phase = "DONE" => exitCode = "0"
  /\ (phase = "FAILED" /\ pc = "exited") => exitCode = "1"
  /\ (phase = "FAILED" /\ pc # "exited") => exitCode = "running" /\ pc = "fatal"

\* C12 witness: a completed run without any working endpoint, exit code 0.
C12_Witness ==
  /\ phase = "DONE" /\ exitCode = "0"
  /\ workingProxies = << >> /\ Len(deadProxies) >= 1

PhaseOrder ==
  << "IDLE", "FETCHING", "TESTING", "FINALIZING", "DONE" >>

PhaseRank(ph) == CHOOSE k \in DOMAIN PhaseOrder : PhaseOrder[k] = ph

\* A step of the phase: to the next phase of the order, or to FAILED from
\* FETCHING, TESTING or FINALIZING.
C13_PhaseStep ==
  phase' # phase =>
    \/ /\ phase # "FAILED" /\ phase' # "FAILED"
       /\ PhaseRank(phase') = PhaseRank(phase) + 1
    \/ /\ phase' = "FAILED"
       /\ phase \in {"FETCHING", "TESTING", "FINALIZING"}

C13_PhaseGates ==
  /\ phase \in {"TESTING", "FINALIZING", "DONE"} => settled = SourceIds
  /\ phase \in {"FINALIZING", "DONE"} =>
       /\ i >= N /\ probes = << >>
       /\ issued = Range(allProxies)

\* C13: the phase advances one step at a time along IDLE, FETCHING,
\* TESTING, FINALIZING, DONE, or leaves FETCHING, TESTING or FINALIZING for
\* FAILED; DONE and FAILED are never left; testing starts only when every
\* source fetch has settled, and finalization only when every batch has
\* been issued and has finished.
C13_PhaseOrder == []C13_PhaseGates /\ [][C13_PhaseStep]_vars

\* C13 witness: a run through all phases with two batches.
C13_Witness ==
  /\ phase = "DONE" /\ batchSize = 1 /\ N >= 2

\* The lines of the text answers of the sources in S.
TextLines(S) ==
  UNION { Range(feed[s].data) : s \in {x \in S : feed[x].kind = "text"} }

\* A candidate line normalized as the endpoint set is specified to do it:
\* scheme prefix stripped, blanks trimmed, trailing comment stripped.
Normalized(l) == l.core

\* C14: for any lines from any sources (text answers only), the size of
\* the endpoint set equals the number of distinct strings that are valid
\* after normalization, among the lines of the sources read so far.
C14_Deduplication ==
  (\A s \in SourceIds : feed[s].kind # "json") =>
    Len(allProxies) =
      Cardinality({ Normalized(l) :
                      l \in {x \in TextLines(settled) :
                               IpPortShape(Normalized(x))} })

\* C15: every member of the endpoint set matches the IPv4:port shape,
\* whatever the format of the answers of the sources.
C15_WellFormedMembers == \A e \in Range(allProxies) : IpPortShape(e)

\* C16: fetchProxies never throws; every source whose fetch failed is
\* recorded in stats.sources with status "failed" and its message cut to
\* 100 characters; the endpoints of every source that answered are in the
\* set.
C16_SourceIsolation ==
  /\ phase = "FAILED" => N = 0
  /\ \A s \in settled :
       LET src == proxySources(version)[s]
       IN IF feed[s].kind = "error"
          THEN /\ src.name \in DOMAIN stats.sources
               /\ stats.sources[src.name].status = "failed"
               /\ stats.sources[src.name].error = Substring(feed[s].message, 100)
               /\ stats.sources[src.name].error.len <= 100
          ELSE Range(ParseResponse(version, src, feed[s]))
                 \subseteq Range(allProxies)

\* The batch an endpoint is tested in (0-based), from its position in the
\* ordered endpoint list.
BatchOf(e) ==
  ((CHOOSE p \in DOMAIN allProxies : allProxies[p] = e) - 1) \div batchSize

\* The calls of one batch start together and the clock advances for all
\* calls in flight at once, so of two results of one batch the one with the
\* smaller responseTime completed first.
InCompletionOrder(list) ==
  \A a, b \in DOMAIN list :
    (a < b /\ BatchOf(list[a].proxy) = BatchOf(list[b].proxy))
      => list[a].responseTime <= list[b].responseTime

\* C17: results are recorded in the order in which their probes completed
\* (while testing, the results of one batch never stand in the lists
\* against their completion order), and every result of a batch is
\* recorded before the next batch is started.
C17_CompletionOrder ==
  /\ phase = "TESTING" =>
       InCompletionOrder(workingProxies) /\ InCompletionOrder(deadProxies)
  /\ (phase = "TESTING" /\ pc \in {"loop", "delay"}) =>
       \A e \in issued \ rejectedEver : e \in RecordedProxies

\* C18: a failing write to a result or log file during testing never
\* fails the run: a run that got endpoints fails only in saveResults, with
\* every endpoint tested.
C18_SinkFailureContained ==
  (phase = "FAILED" /\ N > 0) =>
    /\ fatalMessage = "write failed"
    /\ issued = Range(allProxies)

\* C19: whenever the processing of a batch has finished, the results file
\* lists every working endpoint recorded so far.
C19_IncrementalPersistence ==
  (phase = "TESTING" /\ pc \in {"loop", "delay"}) =>
    Range(ProxyColumn(workingProxies)) \subseteq Range(hasil)

\* C20: with the endpoints 1.1.1.1:80 and 2.2.2.2:8080, the first
\* verification URL answering 200 "origin 1.1.1.1" through 1.1.1.1:80 and
\* every request through 2.2.2.2:8080 failing, the summary of the completed
\* run has totalWorking = 1 and totalDead = 1, and the working list is
\* 1.1.1.1:80 with the host of the first verification URL as its target;
\* 2.2.2.2:8080 is the dead one.
C20_EndToEnd ==
  phase = "DONE" =>
    /\ statsJson.totalWorking = 1
    /\ statsJson.totalDead = 1
    /\ ProxyColumn(workingProxies) = << E1 >>
    /\ workingProxies[1].testUrl = Hostname(testUrls(version)[1])
    /\ ProxyColumn(deadProxies) = << E2 >>
    /\ hasil = FinalHeader(version) \o << E1 >>

\* C20 witness: both endpoints tested together in one batch, the dead one
\* after a try of each of the three verification URLs.
C20_Witness ==
  /\ phase = "DONE"
  /\ version = "fixed" /\ batchSize = 2 /\ concurrency = 2
  /\ plan # << >>
  /\ statsJson.totalWorking = 1 /\ statsJson.totalDead = 1
  /\ deadProxies[1].attempts = 3

\* C21: the targets one probe has tried are testUrls[(s + r) mod L] for
\* r = 0, 1, ... from its start index s, at most L of them, so no target
\* is tried twice.
C21_RoundRobinRotation ==
  /\ Len(probes[1].tried) <= Len(testUrls(version))
  /\ probes[1].tried = RoundRobin(Len(probes[1].tried))
  /\ NoDuplicates(probes[1].tried)

\* C21 witness: three tries from the last of three targets, wrapping around.
C21_Witness ==
  /\ plan # << >>
  /\ version = "fixed"
  /\ probes[1].tried = << 3, 1, 2 >>

\* The validation as specified: an IPv4-shaped substring, or a marker
\* token ("origin", "ip"), or more than the minimal length.
SpecAccepts(body) ==
  body.ip \/ body.origin \/ body.ipWord \/ body.len > 5

\* The probe returned success from attempt k.
AcceptedAt(k) ==
  /\ probes[1].state = "fulfilled"
  /\ probes[1].value.success
  /\ probes[1].value.attempt = k

\* C24: an attempt that got a 200 with a non-empty body is accepted if and
\* only if the body holds an IPv4-shaped substring, or a marker token, or
\* is longer than the minimal length.
C24_BodyValidation ==
  \A k \in DOMAIN plan :
    ( /\ Len(probes[1].tried) >= k
      /\ plan[k].kind = "response"
      /\ plan[k].body.len > 0 )
    => (AcceptedAt(k) <=> SpecAccepts(plan[k].body))

\* A failed attempt of the kinds the claim lists: a network error, a
\* timeout, a status other than 200, an empty body, a body that fails the
\* validation of the version.
ListedFailure(out) ==
  \/ /\ out.kind = "throw"
     /\ out.error \in {TimeoutError, BadStatusError, RefusedError}
  \/ /\ out.kind = "response"
     /\ ~(Truthy(out.body) /\ hasValidData(version, out.body))

\* C25: after k failed attempts, k not the last, the probe has neither
\* returned nor rejected: it is in flight at retry k, about to ask the
\* next target of the rotation.
C25_ContinueOnFailure ==
  \A k \in 1..(maxRetries(version) - 1) :
    ( /\ Len(probes[1].tried) = k
      /\ \A m \in 1..k : ListedFailure(plan[m]) )
    => /\ probes[1].state = "pending"
       /\ probes[1].retry = k
       /\ TargetOf(version, probes[1].testUrlIndex, probes[1].retry)
            = RoundRobin(k + 1)[k + 1]

\* C25 witness: a timeout, then an empty body, and a third target to ask.
C25_Witness ==
  /\ plan # << >>
  /\ version = "fixed"
  /\ Len(probes[1].tried) = 2
  /\ plan[1].kind = "throw" /\ plan[1].error = TimeoutError
  /\ plan[2].kind = "response" /\ plan[2].body.len = 0
  /\ probes[1].state = "pending"

\* C26: a failed result names the host of the last target tried: with m
\* attempts from start index s, the host of testUrls[(s + m - 1) mod L].
C26_FailureTarget ==
  (probes[1].state = "fulfilled" /\ ~probes[1].value.success) =>
    /\ probes[1].value.attempts = Len(probes[1].tried)
    /\ probes[1].value.testUrl =
         Hostname(testUrls(version)[TargetOf(version, probes[1].testUrlIndex,
                                             probes[1].value.attempts - 1)])

\* The reasons that classify a timeout.
TimeoutReasons ==
  { "ECONNABORTED: " \o TimeoutError.message.text, TimeoutError.message.text }

\* C27: a result has an error reason if and only if success is false; on
\* exhaustion the reason classifies the failure of the final attempt: a
\* timeout reason after a final timeout, and a reason that is not the
\* message of an exception after a final attempt that failed validation.
C27_ErrorReason ==
  probes[1].state = "fulfilled" =>
    LET last == plan[Len(probes[1].tried)]
        value == probes[1].value
    IN /\ (value.error # Undefined) <=> ~value.success
       /\ (~value.success /\ last.kind = "throw" /\ last.error = TimeoutError)
            => value.error \in TimeoutReasons
       /\ (~value.success /\ last.kind = "response")
            => value.error \notin TimeoutReasons \cup {Undefined}

\* A step that starts probes finds no call in flight, every call made so
\* far settled and its result (when it has one) recorded, and starts the
\* probes of one batch only.
C22_Barrier ==
  issued' # issued =>
    /\ Pending = {}
    /\ Range(completed) = issued
    /\ \A e \in issued \ rejectedEver : e \in RecordedProxies
    /\ \A a, b \in issued' \ issued : BatchOf(a) = BatchOf(b)
    /\ \A a \in issued, b \in issued' \ issued : BatchOf(a) < BatchOf(b)

\* C22: no probe of a batch is started before every probe of the batches
\* before it has settled and every result of theirs has been recorded (the
\* append to the results file is made in the step that records).
C22_BatchBarrier == [][C22_Barrier]_vars

\* C22 witness: the second batch is in flight, the first one recorded.
C22_Witness ==
  /\ phase = "TESTING" /\ i >= 1
  /\ Pending # {}
  /\ RecordedProxies # {}

\* Math.ceil(proxiesToTest.length / batchSize)
totalBatches == (N + batchSize - 1) \div batchSize

\* C23: the delay is taken once between two consecutive batches and not
\* after the last one: while batch b is in flight b - 1 delays were taken,
\* a delay is pending only when another batch follows, and a run of B
\* batches has waited B - 1 times when testing has finished.
C23_InterBatchPacing ==
  /\ (phase = "TESTING" /\ pc = "await") => waits = i \div batchSize
  /\ (phase = "TESTING" /\ pc = "delay") => i + batchSize < N
  /\ TestingFinished => waits = totalBatches - 1

\* C23 witness: three batches, two delays.
C23_Witness ==
  /\ phase = "DONE"
  /\ totalBatches = 3 /\ waits = 2

\* The start index the loops of testAllProxies give to position p (1-based).
StartOf(p) ==
  LET bi == ((p - 1) \div batchSize) * batchSize
      within == p - 1 - bi
  IN StartIndex(version, bi, (within \div concurrency) * concurrency,
                within % concurrency)

StartCount(s) == Cardinality({p \in 1..N : StartOf(p) = s})

\* C28: the endpoint at position p (0-based) starts at target p mod L for
\* every batchSize and concurrency, so the numbers of endpoints that start
\* at two targets differ by at most one (the start indices of the whole
\* list are those the loops will compute, fixed when testing begins).
C28_RotationSeeding ==
  /\ \A p \in DOMAIN probes :
       /\ probes[p].testUrlIndex = (p - 1) % Len(testUrls(version))
       /\ probes[p].testUrlIndex = StartOf(p)
  /\ (phase = "TESTING" /\ pc = "loop" /\ i = 0) =>
       /\ \A p \in 1..N : StartOf(p) = (p - 1) % Len(testUrls(version))
       /\ \A s, u \in 0..(Len(testUrls(version)) - 1) :
            StartCount(s) - StartCount(u) <= 1

\* C28 witness: the second endpoint of a batch, alone in the second
\* concurrency group, starts at the second target.
C28_Witness ==
  /\ version = "fixed" /\ batchSize = 2 /\ concurrency = 1
  /\ 2 \in DOMAIN probes
  /\ probes[2].testUrlIndex = 1

\* The place of an endpoint in the order in which the calls settled.
CompletedAt(e) == CHOOSE k \in DOMAIN completed : completed[k] = e

\* C29: in the final sorted working list two successes with the same
\* response time stand in the order in which their probes completed.
C29_StableTieBreak ==
  phase = "DONE" =>
    \A a, b \in DOMAIN workingProxies :
      (a < b /\ workingProxies[a].responseTime = workingProxies[b].responseTime)
        => CompletedAt(workingProxies[a].proxy)
             < CompletedAt(workingProxies[b].proxy)

\* The place of an endpoint in the ordered endpoint list.
PositionOf(e) == CHOOSE p \in DOMAIN allProxies : allProxies[p] = e

\* C30: the final sorted working list depends only on the ordered endpoint
\* list and on each endpoint's classification and response time: it is in
\* ascending order of response time, equal times in the order of the
\* endpoint list, whatever the order in which the calls settled; the
\* results file lists it.
C30_DeterministicFinalView ==
  phase = "DONE" =>
    /\ \A k \in 1..(Len(workingProxies) - 1) :
         LET a == workingProxies[k]
             b == workingProxies[k + 1]
         IN \/ a.responseTime < b.responseTime
            \/ /\ a.responseTime = b.responseTime
               /\ PositionOf(a.proxy) < PositionOf(b.proxy)
    /\ hasil = FinalHeader(version) \o JoinLines(ProxyColumn(workingProxies))

\* C30 witness: two successes of one batch with the same response time,
\* the second endpoint settled first, the final list in list order.
C30_Witness ==
  /\ phase = "DONE"
  /\ ProxyColumn(workingProxies) = << E1, E2 >>
  /\ workingProxies[1].responseTime = workingProxies[2].responseTime
  /\ CompletedAt(E2) < CompletedAt(E1)

\* C31: in the summary of a completed run totalWorking + totalDead =
\* totalTested and totalTested = totalFetched.
C31_SummaryCounts ==
  phase = "DONE" =>
    /\ statsJson.totalWorking + statsJson.totalDead = statsJson.totalTested
    /\ statsJson.totalTested = statsJson.totalFetched

\* The record a source's callback writes to stats.sources.
SourceRecord(s) ==
  LET src == proxySources(version)[s]
      res == feed[s]
  IN IF res.kind = "error"
     THEN [total |-> 0, status |-> "failed"]
     ELSE [total |-> Len(ParseResponse(version, src, res)),
           status |-> "success"]

\* C35: after fetchProxies stats.sources holds one record for each
\* configured source, and it is the record that source wrote.
C35_SourceStatsRetained ==
  (phase \notin {"IDLE", "FETCHING"}) =>
    /\ Cardinality(DOMAIN stats.sources) = Len(proxySources(version))
    /\ \A s \in SourceIds :
         LET name == proxySources(version)[s].name
         IN /\ name \in DOMAIN stats.sources
            /\ stats.sources[name].total = SourceRecord(s).total
            /\ stats.sources[name].status = SourceRecord(s).status

\* C36: in the error stats document written on the fatal path
\* working <= tested <= fetched, and tested is the number of results
\* recorded before the failure.
C36_PartialStats ==
  (phase = "FAILED" /\ pc = "exited" /\ statsJson.error) =>
    /\ statsJson.working <= statsJson.tested
    /\ statsJson.tested <= statsJson.fetched
    /\ statsJson.tested = Len(workingProxies) + Len(deadProxies)

\* The number after the colon of the texts the feeds use; -1 for a text
\* without a port.
PortOf(text) ==
  CASE text \in {E1, "proxy.example:80"} -> 80
    [] text \in {E2, E4} -> 8080
    [] text = E3 -> 3128
    [] text = E5 -> 0
    [] text = E6 -> 70000
    [] text = "1.2.3.4:999999" -> 999999
    [] OTHER -> -1

\* C32: every endpoint stored in the endpoint set has a port in 1..65535.
C32_PortRange == \A e \in Range(allProxies) : PortOf(e) \in 1..65535

\* No probe makes more than maxRetries attempts.
AttemptsBounded ==
  \A p \in DOMAIN probes : Len(probes[p].tried) <= maxRetries(version)

\* C33: every probe ends after at most maxRetries attempts, no call stays
\* in flight for ever, and every run reaches DONE or FAILED.
C33_Termination ==
  /\ []AttemptsBounded
  /\ (Pending # {}) ~> (Pending = {})
  /\ <>(phase \in {"DONE", "FAILED"})

\* C33 witness: a run reached DONE after a probe used every attempt.
C33_Witness ==
  /\ phase = "DONE"
  /\ version = "fixed"
  /\ \E k \in DOMAIN deadProxies : deadProxies[k].attempts = maxRetries(version)

IsProxyLine(l) == l \notin {"#", ""}

\* The lines of a file that are neither comment nor empty.
ProxyLines(file) == IF file = NoFile THEN << >> ELSE SelectSeq(file, IsProxyLine)

\* A step of the batch loop that records no result leaves the proxy lines
\* of the results file as they are.
C37_Frame ==
  (phase = "TESTING" /\ pc = "await" /\ workingProxies' = workingProxies)
    => ProxyLines(hasil') = ProxyLines(hasil)

\* C37: the rewrite of the header of the results file after a batch keeps
\* every proxy line appended so far, in append order.
C37_HeaderRewritePreserves == [][C37_Frame]_vars

\* ------------------------------------------------------ page cache service
\* The express service of lines 1145-1878: its clock, its page cache and
\* its browser.  The clock moves in steps of a quarter of an hour.
TimeUnit == 15 * 60 * 1000

\* const CACHE_TTL = 30 * 60 * 1000
CACHE_TTL == 30 * 60 * 1000

\* How many steps the clock makes.
MaxClock == 3

\* req.query.url: a page, or no url parameter.
Urls == {"a"}
NoUrl == ""

\* crypto.createHash('md5').update(url).digest('hex'), taken to be
\* different for different pages
getCacheKey(url) == "md5:" \o url

Page(url) == "page:" \o url

\* The files of CACHE_DIR when the service starts: none; one saved a
\* quarter of an hour ago; one saved exactly CACHE_TTL ago.
InitialFiles ==
  { NoEntries,
    [k \in {getCacheKey("a")} |-> Entry(Page("a"), 0 - TimeUnit)],
    [k \in {getCacheKey("a")} |-> Entry(Page("a"), 0 - CACHE_TTL)] }

\* The tester does not run in the service's process.
TesterLoaded ==
  /\ version = "fixed"
  /\ batchSize = 1
  /\ concurrency = 1
  /\ feed = << TextRes(<< >>), TextRes(<< >>), TextRes(<< >>) >>
  /\ plan = << >>
  /\ phase = "IDLE"
  /\ pc = "start"
  /\ settled = {}
  /\ allProxies = << >>
  /\ stats = [totalFetched |-> 0, totalTested |-> 0, totalWorking |-> 0,
              totalDead |-> 0, errors |-> << >>,
              sources |-> [n \in {} |-> Undefined]]
  /\ i = 0
  /\ probes = << >>
  /\ cursor = 0
  /\ totalTested = 0
  /\ workingCount = 0
  /\ workingProxies = << >>
  /\ deadProxies = << >>
  /\ hasil = NoFile
  /\ statsJson = NoStats
  /\ fatalMessage = Undefined
  /\ exitCode = "running"
  /\ issued = {}
  /\ rejectedEver = {}
  /\ flush = "none"
  /\ waits = 0
  /\ completed = << >>

InitServer ==
  /\ TesterLoaded
  /\ ServiceLoaded
  /\ cacheFiles \in InitialFiles

\* map.delete(key)
Without(cache, key) == [k \in DOMAIN cache \ {key} |-> cache[k]]

\* map.set(key, data)
With(cache, key, data) ==
  [k \in DOMAIN cache \cup {key} |-> IF k = key THEN data ELSE cache[k]]

\* loadFileCache: if (Date.now() - data.timestamp < CACHE_TTL)
Loadable(data, t) == t - data.timestamp < CACHE_TTL

\* Mutant of Expired: getCache returns whatever the map holds.
Expired_Never(cached, t) == FALSE

\* getCache: if (Date.now() - cached.timestamp > CACHE_TTL)
Expired(cached, t) == t - cached.timestamp > CACHE_TTL

\* What getCache(cacheKey) finds: no entry, an expired one, a fresh one.
getCache(cache, key, t) ==
  IF key \notin DOMAIN cache THEN "absent"
  ELSE IF Expired(cache[key], t) THEN "expired"
  ELSE "fresh"

\* const cached = noCache ? null : getCache(cacheKey)
ReadsCache(noCache) == ~noCache

\* Mutant of SavesCache: the page is saved with nocache=true too.
SavesCache_Always(noCache) == TRUE

\* if (!noCache) saveCache(cacheKey, scrapeResult)
SavesCache(noCache) == ~noCache

\* Requests take the slots in the order in which they arrive.
NextSlot(r) ==
  /\ reqs[r].pc = "idle"
  /\ \A s \in 1..(r - 1) : reqs[s].pc # "idle"

\* if (!browserInstance || !browserInstance.isConnected())
NeedBrowser == browserInstance = 0 \/ browserInstance \notin connected

\* scrapeViaCroxyProxy starts with browserContext.newPage(): a TypeError
\* when browserContext is null, which the handler's try catches.
BeginScrape(q, ctx) ==
  IF ctx = 0
  THEN [q EXCEPT !.pc = "done", !.answer = "ERROR"]
  ELSE [q EXCEPT !.pc = "scrape"]

\* initBrowser threw: /proxy awaits it outside its try, so the handler's
\* promise rejects without an answer; /test and /restart-browser catch it.
InitFailed(q) ==
  IF q.kind = "proxy"
  THEN [q EXCEPT !.pc = "rejected"]
  ELSE [q EXCEPT !.pc = "done", !.answer = "REDIRECT_ERROR"]

\* startServer(): await initBrowser(), before any request can arrive.
StartBrowser ==
  /\ listening = "off"
  /\ \E ok \in BOOLEAN :
       IF ok
       THEN /\ launched' = launched + 1
            /\ browserInstance' = launched + 1
            /\ browserContext' = launched + 1
            /\ connected' = connected \cup {launched + 1}
            /\ listening' = "booted"
       ELSE /\ listening' = "crashed"
            /\ UNCHANGED << launched, browserInstance, browserContext, connected >>
  /\ UNCHANGED << testerVars, now, memoryCache, cacheFiles, reqs >>

\* startServer(): loadFileCache(), then app.listen.
LoadFileCache ==
  /\ listening = "booted"
  /\ LET fresh == {f \in DOMAIN cacheFiles : Loadable(cacheFiles[f], now)}
     IN /\ memoryCache' = [k \in fresh |-> cacheFiles[k]]
        /\ cacheFiles' = [k \in fresh |-> cacheFiles[k]]
  /\ listening' = "on"
  /\ UNCHANGED << testerVars, now, browserInstance, browserContext, connected,
                  launched, reqs >>

\* app.get("/proxy") up to its first await or its answer.
ProxyRequest(r, url, noCache) ==
  /\ listening = "on"
  /\ NextSlot(r)
  /\ LET key == getCacheKey(url)
         found == IF url = NoUrl THEN "none"
                  ELSE IF ReadsCache(noCache)
                       THEN getCache(memoryCache, key, now)
                       ELSE "skipped"
         q == [reqs[r] EXCEPT !.kind = "proxy", !.key = key,
                              !.noCache = noCache, !.lookup = found]
     IN /\ memoryCache' = IF found = "expired" THEN Without(memoryCache, key)
                          ELSE memoryCache
        /\ cacheFiles' = IF found = "expired" THEN Without(cacheFiles, key)
                         ELSE cacheFiles
        /\ reqs' = [reqs EXCEPT ![r] =
             IF url = NoUrl
             THEN [q EXCEPT !.pc = "done", !.answer = "BAD_REQUEST"]
             ELSE IF found = "fresh"
             THEN [q EXCEPT !.pc = "done", !.answer = "HIT",
                            !.age = now - memoryCache[key].timestamp]
             ELSE IF NeedBrowser THEN [q EXCEPT !.pc = "launch"]
             ELSE BeginScrape(q, browserContext)]
  /\ UNCHANGED << testerVars, now, browserInstance, browserContext, connected,
                  launched, listening >>

\* app.post("/test") up to its first await or its answer.
TestRequest(r, url) ==
  /\ listening = "on"
  /\ NextSlot(r)
  /\ LET key == getCacheKey(url)
         found == IF url = NoUrl THEN "none"
                  ELSE getCache(memoryCache, key, now)
         q == [reqs[r] EXCEPT !.kind = "test", !.key = key, !.lookup = found]
     IN /\ memoryCache' = IF found = "expired" THEN Without(memoryCache, key)
                          ELSE memoryCache
        /\ cacheFiles' = IF found = "expired" THEN Without(cacheFiles, key)
                         ELSE cacheFiles
        /\ reqs' = [reqs EXCEPT ![r] =
             IF url = NoUrl
             THEN [q EXCEPT !.pc = "done", !.answer = "REDIRECT_ERROR"]
             ELSE IF found = "fresh"
             THEN [q EXCEPT !.pc = "done", !.answer = "HIT",
                            !.age = now - memoryCache[key].timestamp]
             ELSE IF NeedBrowser THEN [q EXCEPT !.pc = "launch"]
             ELSE BeginScrape(q, browserContext)]
  /\ UNCHANGED << testerVars, now, browserInstance, browserContext, connected,
                  launched, listening >>

\* The call of initBrowser at the end of /restart-browser, up to its await.
RestartInit(q) ==
  IF NeedBrowser THEN [q EXCEPT !.pc = "launch"]
  ELSE [q EXCEPT !.pc = "done", !.answer = "REDIRECT_OK"]

\* app.post("/restart-browser") up to its first await.
RestartRequest(r) ==
  /\ listening = "on"
  /\ NextSlot(r)
  /\ LET q == [reqs[r] EXCEPT !.kind = "restart"]
     IN IF browserContext # 0
        THEN /\ reqs' = [reqs EXCEPT ![r] = [q EXCEPT !.pc = "closeContext"]]
             /\ UNCHANGED connected
        ELSE IF browserInstance # 0
        THEN /\ reqs' = [reqs EXCEPT ![r] = [q EXCEPT !.pc = "closeInstance"]]
             /\ connected' = connected \ {browserInstance}
        ELSE /\ reqs' = [reqs EXCEPT ![r] = RestartInit(q)]
             /\ UNCHANGED connected
  /\ UNCHANGED << testerVars, now, memoryCache, cacheFiles, browserInstance,
                  browserContext, launched, listening >>

\* await browserContext.close() returned; browserInstance.close() is called.
ContextClosed(r) ==
  /\ reqs[r].pc = "closeContext"
  /\ IF browserInstance # 0
     THEN /\ reqs' = [reqs EXCEPT ![r].pc = "closeInstance"]
          /\ connected' = connected \ {browserInstance}
     ELSE /\ reqs' = [reqs EXCEPT ![r] = RestartInit(reqs[r])]
          /\ UNCHANGED connected
  /\ UNCHANGED << testerVars, now, memoryCache, cacheFiles, browserInstance,
                  browserContext, launched, listening >>

\* await browserInstance.close() returned; initBrowser is called.
InstanceClosed(r) ==
  /\ reqs[r].pc = "closeInstance"
  /\ reqs' = [reqs EXCEPT ![r] = RestartInit(reqs[r])]
  /\ UNCHANGED << testerVars, now, memoryCache, cacheFiles, browserInstance,
                  browserContext, connected, launched, listening >>

\* initBrowser: browserInstance = await chromium.launch(...)
LaunchSettles(r) ==
  /\ reqs[r].pc = "launch"
  /\ \E ok \in BOOLEAN :
       IF ok
       THEN /\ launched' = launched + 1
            /\ browserInstance' = launched + 1
            /\ connected' = connected \cup {launched + 1}
            /\ reqs' = [reqs EXCEPT ![r].pc = "context",
                                    ![r].mine = launched + 1]
       ELSE /\ reqs' = [reqs EXCEPT ![r] = InitFailed(reqs[r])]
            /\ UNCHANGED << launched, browserInstance, connected >>
  /\ UNCHANGED << testerVars, now, memoryCache, cacheFiles, browserContext,
                  listening >>

\* initBrowser: browserContext = await browserInstance.newContext(...), on
\* the browser this call launched; then the handler goes on.
ContextSettles(r) ==
  /\ reqs[r].pc = "context"
  /\ LET q == [reqs[r] EXCEPT !.mine = 0]
     IN IF reqs[r].mine \in connected
        THEN /\ browserContext' = reqs[r].mine
             /\ reqs' = [reqs EXCEPT ![r] =
                  IF q.kind = "restart"
                  THEN [q EXCEPT !.pc = "done", !.answer = "REDIRECT_OK"]
                  ELSE BeginScrape(q, reqs[r].mine)]
        ELSE /\ reqs' = [reqs EXCEPT ![r] = InitFailed(q)]
             /\ UNCHANGED browserContext
  /\ UNCHANGED << testerVars, now, memoryCache, cacheFiles, browserInstance,
                  connected, launched, listening >>

\* await scrapeViaCroxyProxy(url) settles; saveCache and the answer.
ScrapeSettles(r) ==
  /\ reqs[r].pc = "scrape"
  /\ \E ok \in BOOLEAN :
       LET q == reqs[r]
           saves == ok /\ (q.kind = "test" \/ SavesCache(q.noCache))
           data == Entry(Page(q.key), now)
       IN /\ memoryCache' = IF saves THEN With(memoryCache, q.key, data)
                            ELSE memoryCache
          /\ cacheFiles' = IF saves THEN With(cacheFiles, q.key, data)
                           ELSE cacheFiles
          /\ reqs' = [reqs EXCEPT ![r] =
               [q EXCEPT !.pc = "done",
                         !.answer = IF ~ok THEN "ERROR"
                                    ELSE IF q.kind = "test" THEN "TESTED"
                                    ELSE IF q.noCache THEN "BYPASS"
                                    ELSE "MISS"]]
  /\ UNCHANGED << testerVars, now, browserInstance, browserContext, connected,
                  launched, listening >>

\* app.post("/clear-cache")
ClearCache ==
  /\ listening = "on"
  /\ memoryCache # NoEntries
  /\ memoryCache' = NoEntries
  /\ cacheFiles' = NoEntries
  /\ UNCHANGED << testerVars, now, browserInstance, browserContext, connected,
                  launched, listening, reqs >>

\* The setInterval callback that deletes the expired entries of the map.
CleanupExpired ==
  /\ \E k \in DOMAIN memoryCache : now - memoryCache[k].timestamp > CACHE_TTL
  /\ memoryCache' =
       [k \in {e \in DOMAIN memoryCache :
                 ~(now - memoryCache[e].timestamp > CACHE_TTL)} |-> memoryCache[k]]
  /\ UNCHANGED << testerVars, now, cacheFiles, browserInstance, browserContext,
                  connected, launched, listening, reqs >>

\* The browser that startServer launched ends on its own: isConnected()
\* becomes false.
Disconnect ==
  /\ launched = 1
  /\ browserInstance \in connected
  /\ connected' = connected \ {browserInstance}
  /\ UNCHANGED << testerVars, now, memoryCache, cacheFiles, browserInstance,
                  browserContext, launched, listening, reqs >>

\* Date.now() grows.
Advance ==
  /\ now < MaxClock * TimeUnit
  /\ now' = now + TimeUnit
  /\ UNCHANGED << testerVars, memoryCache, cacheFiles, browserInstance,
                  browserContext, connected, launched, listening, reqs >>

NextServer ==
  \/ StartBrowser
  \/ LoadFileCache
  \/ \E r \in 1..MaxRequests, url \in Urls \cup {NoUrl}, noCache \in BOOLEAN :
       ProxyRequest(r, url, noCache)
  \/ \E r \in 1..MaxRequests, url \in Urls \cup {NoUrl} : TestRequest(r, url)
  \/ \E r \in 1..MaxRequests : RestartRequest(r)
  \/ \E r \in 1..MaxRequests : ContextClosed(r)
  \/ \E r \in 1..MaxRequests : InstanceClosed(r)
  \/ \E r \in 1..MaxRequests : LaunchSettles(r)
  \/ \E r \in 1..MaxRequests : ContextSettles(r)
  \/ \E r \in 1..MaxRequests : ScrapeSettles(r)
  \/ ClearCache
  \/ CleanupExpired
  \/ Disconnect
  \/ Advance

SpecServer == InitServer /\ [][NextServer]_vars

\* An answer from the cache is never older than CACHE_TTL.
C34_ServedFresh ==
  \A r \in DOMAIN reqs : reqs[r].answer = "HIT" => reqs[r].age <= CACHE_TTL

\* A lookup that finds an entry older than CACHE_TTL deletes it from the
\* map and is a miss; any other lookup leaves the map alone.
C34_Lookup ==
  \A r \in DOMAIN reqs :
    (reqs[r].pc = "idle" /\ reqs'[r].lookup \in {"absent", "expired", "fresh"})
      => LET key == reqs'[r].key
         IN IF key \in DOMAIN memoryCache
               /\ now - memoryCache[key].timestamp > CACHE_TTL
            THEN /\ key \notin DOMAIN memoryCache'
                 /\ reqs'[r].lookup = "expired"
                 /\ reqs'[r].answer # "HIT"
            ELSE memoryCache' = memoryCache

\* C34: getCache never returns an entry whose age exceeds CACHE_TTL; an
\* expired entry found on lookup is deleted from the memory cache and the
\* lookup is a miss, so no request is answered from the cache with content
\* older than the TTL.
C34_CacheTtlEviction == []C34_ServedFresh /\ [][C34_Lookup]_vars

\* C34 witness: one request was answered from the cache with an entry
\* exactly CACHE_TTL old, another found the entry expired.
C34_Witness ==
  /\ \E r \in DOMAIN reqs : reqs[r].answer = "HIT" /\ reqs[r].age = CACHE_TTL
  /\ \E r \in DOMAIN reqs : reqs[r].lookup = "expired"

\* A step of a /proxy request with nocache=true leaves the cache as it is.
C38_Frame ==
  \A r \in DOMAIN reqs :
    (reqs'[r] # reqs[r] /\ reqs'[r].kind = "proxy" /\ reqs'[r].noCache)
      => /\ memoryCache' = memoryCache
         /\ cacheFiles' = cacheFiles

\* A /proxy request with nocache=true never looks the page up and is never
\* answered from the cache: past the url check it is launching the
\* browser, scraping, or answered with the scraped page or an error.
C38_NoLookup ==
  \A r \in DOMAIN reqs :
    (reqs[r].kind = "proxy" /\ reqs[r].noCache)
      => /\ reqs[r].lookup \in {"skipped", "none"}
         /\ reqs[r].answer \in {"none", "BYPASS", "ERROR", "BAD_REQUEST"}
         /\ reqs[r].lookup = "skipped" => reqs[r].answer # "BAD_REQUEST"

\* C38: a /proxy request with nocache=true neither reads from nor writes to
\* nor deletes from the memory cache, and scrapes afresh.
C38_NoCacheFrame == []C38_NoLookup /\ [][C38_Frame]_vars

\* C38 witness: a nocache request was answered with a scraped page while
\* the cache holds, untouched, an entry for the same page loaded at start.
C38_Witness ==
  \E r \in DOMAIN reqs :
    /\ reqs[r].kind = "proxy" /\ reqs[r].noCache
    /\ reqs[r].answer = "BYPASS"
    /\ reqs[r].key \in DOMAIN memoryCache
    /\ memoryCache[reqs[r].key].timestamp < 0

\* C39: at most one browser is running at any time, and every running
\* browser is the one browserInstance refers to.
C39_SingleBrowser ==
  /\ Cardinality(connected) <= 1
  /\ \A b \in connected : b = browserInstance

====
